---- MODULE Spec2Model ----
(***************************************************************************)
(* The GraphQL gateway of src/index.js: resolvers over a relational users  *)
(* table (pg), a trips document collection (mongodb), a redis cache and a  *)
(* kafka topic.  Every resolver is an async function; it runs atomically   *)
(* up to each await, so one action of the model is one backend statement   *)
(* together with the JavaScript that follows it up to the next await (or   *)
(* the return).  Requests of different clients interleave at those awaits. *)
(* Modelled: getUser, getTrip and the six mutations.  getAllUsers and      *)
(* getAllTrips read whole collections and write nothing; no property below *)
(* is about them.  Every backend call may resolve or reject.               *)
(***************************************************************************)
EXTENDS Naturals, Sequences, FiniteSets, TLC

\* Number of requests the gateway serves in one run (each slot is one request).
MaxReq == 2

Reqs == 1..MaxReq

\* JavaScript's undefined (an argument the request omitted, a missing field)
\* and the stores' NULL / BSON null.
Undefined == "undefined"
Null == "null"

VARIABLES
    users,      \* rows of the relational table users
    nextId,     \* the table's id sequence (next value the store assigns)
    cache,      \* redis: key -> [has, value]
    trips,      \* documents of travel.trips
    nextOid,    \* the next _id the document store assigns
    topic,      \* messages delivered to the kafka topic "trips"
    driverOps,  \* whether this build's mongodb driver fills result.ops
    req,        \* per request: resolver, arguments, position, outcome
    clock,      \* number of store write statements executed so far
    born        \* the id and username each row was inserted with

vars ==
    <<users, nextId, cache, trips, nextOid, topic, driverOps, req, clock, born>>

----------------------------------------------------------------------------
\* Values

\* Text of the ids the users sequence assigns: 1, 2, 3, ...
SerialText(n) == <<"1", "2", "3", "4", "5", "6", "7", "8", "9">>[n]

\* ID arguments clients send for users: the id of the row the table holds at
\* startup, the id the next INSERT is given, and "01", a second spelling of 1
\* (the store parses the parameter of WHERE id = $1 into the column's type).
UserIdArgs == {"1", "2", "01"}

\* The store's reading of an id parameter.
PgId(s) == IF s = "01" THEN "1" ELSE s

\* pg sends an undefined parameter as NULL.
PgParam(v) == IF v = Undefined THEN Null ELSE v

\* Text of the _id values the document store assigns.
OidText(n) == <<"o1", "o2", "o3", "o4", "o5", "o6", "o7", "o8", "o9">>[n]

\* ID arguments clients send for trips: the id field of the document the
\* collection holds at startup, and the _id the first insertOne is given.
TripIdArgs == {"t1", "o1"}

\* The mongodb driver serialises an undefined value as BSON null
\* (ignoreUndefined is off).
BsonValue(v) == IF v = Undefined THEN Null ELSE v

NoArgs ==
    [id |-> Undefined, name |-> Undefined, username |-> Undefined,
     email |-> Undefined, phone |-> Undefined, website |-> Undefined,
     destination |-> Undefined, startDate |-> Undefined, endDate |-> Undefined]

\* addUser(name: String!, username: String!, email: String!, phone: String!,
\* website: String!): all five are required.
AddUserArgs ==
    {[name |-> "Bob", username |-> "bob2", email |-> "b@y.com",
      phone |-> "777", website |-> "y.com"] @@ NoArgs}

\* updateUser(id: ID!, name: String, email: String, phone: String,
\* website: String): each of the four may be omitted.
UpdateUserArgs ==
    {[id |-> i, name |-> n.name, email |-> e.email, phone |-> e.phone,
      website |-> e.website] @@ NoArgs :
        i \in UserIdArgs,
        n \in {[name |-> Undefined], [name |-> "Carol"]},
        e \in {[email |-> Undefined, phone |-> Undefined, website |-> Undefined],
               [email |-> "c@z.com", phone |-> "999", website |-> "z.com"]}}

IdArgs(S) == {[id |-> i] @@ NoArgs : i \in S}

\* addTrip(destination: String!, startDate: String!, endDate: String!).
AddTripArgs ==
    {[destination |-> "Rome", startDate |-> "05-01", endDate |-> "05-09"] @@ NoArgs}

\* updateTrip(id: ID!, destination: String, startDate: String, endDate: String).
UpdateTripArgs ==
    {[id |-> i, destination |-> d.destination, startDate |-> s.startDate,
      endDate |-> s.endDate] @@ NoArgs :
        i \in TripIdArgs,
        d \in {[destination |-> Undefined], [destination |-> "Oslo"]},
        s \in {[startDate |-> Undefined, endDate |-> Undefined],
               [startDate |-> "06-01", endDate |-> "06-08"]}}

\* The row the table holds at startup, from an addUser of an earlier run.
SeedUser ==
    [id |-> "1", name |-> "Alice", username |-> "alice1", email |-> "a@x.com",
     phone |-> "555", website |-> "x.com"]

\* The document the collection holds at startup.  It has an id field, which
\* only another writer can have given it: insertOne below stores none.
SeedTrip ==
    [_id |-> "o0", id |-> "t1", destination |-> "Lima", startDate |-> "01-01",
     endDate |-> "01-07"]

----------------------------------------------------------------------------
\* The relational store

\* The statement with the fourth and fifth values in each other's place.
InsertUserSwapped(tbl, id, a) ==
    tbl \cup {[id |-> id, name |-> PgParam(a.name), username |-> PgParam(a.username),
               email |-> PgParam(a.email), phone |-> PgParam(a.website),
               website |-> PgParam(a.phone)]}

\* INSERT INTO users (name, username, email, phone, website)
\* VALUES ($1, $2, $3, $4, $5): the store assigns id.
InsertUser(tbl, id, a) ==
    tbl \cup {[id |-> id, name |-> PgParam(a.name), username |-> PgParam(a.username),
               email |-> PgParam(a.email), phone |-> PgParam(a.phone),
               website |-> PgParam(a.website)]}

\* The statement with username written from the second parameter as well.
UpdateUsersShifted(tbl, a) ==
    {IF row.id = PgId(a.id)
       THEN [row EXCEPT !.name = PgParam(a.name), !.username = PgParam(a.email),
                        !.email = PgParam(a.email), !.phone = PgParam(a.phone),
                        !.website = PgParam(a.website)]
       ELSE row : row \in tbl}

\* UPDATE users SET name = $1, email = $2, phone = $3, website = $4
\* WHERE id = $5, with [name, email, phone, website, id].
UpdateUsers(tbl, a) ==
    {IF row.id = PgId(a.id)
       THEN [row EXCEPT !.name = PgParam(a.name), !.email = PgParam(a.email),
                        !.phone = PgParam(a.phone), !.website = PgParam(a.website)]
       ELSE row : row \in tbl}

\* The statement comparing the id column with the parameter's text.
DeleteUsersByText(tbl, id) == {row \in tbl : row.id # id}

\* DELETE FROM users WHERE id = $1.
DeleteUsers(tbl, id) == {row \in tbl : row.id # PgId(id)}

\* The rows of a statement's result (ids are unique: at most one row).
RowsOf(S) == IF S = {} THEN <<>> ELSE <<CHOOSE row \in S : TRUE>>

\* SELECT * FROM users WHERE id = $1, and RETURNING * of an UPDATE.
SelectUser(tbl, id) == RowsOf({row \in tbl : row.id = PgId(id)})

\* result.rows[0]: the first row, or undefined (<<>>) when there is none.
FirstRow(rows) == IF rows = <<>> THEN <<>> ELSE <<rows[1]>>

\* result.rows[0].id as the template `${...}` prints it.
RowId(rows) == IF rows = <<>> THEN Undefined ELSE rows[1].id

----------------------------------------------------------------------------
\* The document store

\* The first document a filter { id } matches, as a sequence (<<>>: none,
\* what findOne returns as null).  A document without an id field matches no
\* filter on id.
FindOne(coll, id) == RowsOf({d \in coll : d.id = id})

\* collection.insertOne({ destination, startDate, endDate }): the store
\* assigns _id; the document is given no id field.
InsertOne(coll, oid, a) ==
    coll \cup {[_id |-> oid, id |-> Undefined,
                destination |-> BsonValue(a.destination),
                startDate |-> BsonValue(a.startDate),
                endDate |-> BsonValue(a.endDate)]}

\* collection.updateOne({ id }, { $set: { destination, startDate, endDate } }).
UpdateOne(coll, a) ==
    LET m == FindOne(coll, a.id)
    IN IF m = <<>> THEN coll
       ELSE (coll \ {m[1]}) \cup
            {[m[1] EXCEPT !.destination = BsonValue(a.destination),
                          !.startDate = BsonValue(a.startDate),
                          !.endDate = BsonValue(a.endDate)]}

\* A delete whose filter carries no usable id: it removes the first document.
DeleteOneUnfiltered(coll, id) ==
    IF coll = {} THEN coll ELSE coll \ {CHOOSE d \in coll : TRUE}

\* collection.deleteOne({ id }).
DeleteOne(coll, id) ==
    LET m == FindOne(coll, id)
    IN IF m = <<>> THEN coll ELSE coll \ {m[1]}

\* JSON.stringify of result.ops[0], the inserted document.
JSONstringifyTrip(v) ==
    IF v = <<>> THEN <<>>
    ELSE <<"{", <<"destination", v[1].destination>>, <<"startDate", v[1].startDate>>,
           <<"endDate", v[1].endDate>>, <<"_id", v[1]._id>>, "}">>

----------------------------------------------------------------------------
\* The cache

\* The key `user:${id}`.
UserKey(id) == <<"user:", id>>

\* The keys a run can touch: those of the ID arguments and of every id the
\* sequence can assign.
CacheKeys ==
    {UserKey(i) : i \in UserIdArgs \cup {SerialText(n) : n \in 1..MaxReq + 1}}

NoEntry == [has |-> FALSE, value |-> <<>>]

\* JSON.stringify of result.rows[0]: the object's members in order, or
\* undefined (no text) for undefined.
JSONstringify(v) ==
    IF v = <<>> THEN <<>>
    ELSE <<"{", <<"id", v[1].id>>, <<"name", v[1].name>>, <<"username", v[1].username>>,
           <<"email", v[1].email>>, <<"phone", v[1].phone>>,
           <<"website", v[1].website>>, "}">>

----------------------------------------------------------------------------
\* Requests

Idle ==
    [op |-> "none", args |-> NoArgs, pc |-> "idle", primary |-> "none",
     side |-> "none", pre |-> <<>>, rows |-> <<>>, status |-> "pending",
     data |-> <<>>, text |-> <<>>, at |-> 0]

\* Requests are taken in slot order.
CanStart(r) == req[r].pc = "idle" /\ (IF r = 1 THEN TRUE ELSE req[r - 1].pc # "idle")

\* An await whose promise rejects throws: the rest of the resolver is skipped
\* and the field resolves to an error.  Otherwise the resolver goes on.
AwaitAlwaysResumes(outcome) == "next"

Await(outcome) == IF outcome = "raised" THEN "done" ELSE "next"

Outcomes == {"ok", "raised"}

\* A request whose first statement raised; its arguments are not used again.
Raised(op) ==
    [Idle EXCEPT !.op = op, !.pc = Await("raised"), !.primary = "raised",
                 !.status = "error"]

Init ==
    /\ users = {SeedUser}
    /\ nextId = 2
    /\ cache = [k \in CacheKeys |->
                  IF k = UserKey(SeedUser.id)
                    THEN [has |-> TRUE, value |-> JSONstringify(<<SeedUser>>)]
                    ELSE NoEntry]
    /\ trips = {SeedTrip}
    /\ nextOid = 1
    /\ topic = <<>>
    /\ driverOps \in BOOLEAN
    /\ req = [r \in Reqs |-> Idle]
    /\ clock = 0
    /\ born = {<<SeedUser.id, SeedUser.username>>}

----------------------------------------------------------------------------
\* Resolvers of the users domain

\* Query.getUser: SELECT, return result.rows[0].
GetUser(r) ==
    /\ CanStart(r)
    /\ \E a \in IdArgs(UserIdArgs), o \in Outcomes :
        req' = [req EXCEPT ![r] =
                  IF o = "raised" THEN [Raised("getUser") EXCEPT !.pc = "done"]
                  ELSE [Idle EXCEPT !.op = "getUser", !.args = a, !.pc = "done",
                                    !.primary = "ok", !.status = "ok",
                                    !.rows = SelectUser(users, a.id),
                                    !.data = FirstRow(SelectUser(users, a.id)),
                                    !.at = clock]]
    /\ UNCHANGED <<users, nextId, cache, trips, nextOid, topic, driverOps, clock, born>>

\* Mutation.addUser up to its second await: INSERT ... RETURNING *.
AddUserInsert(r) ==
    /\ CanStart(r)
    /\ \E a \in AddUserArgs, o \in Outcomes :
        IF o = "raised"
          THEN /\ req' = [req EXCEPT ![r] = Raised("addUser")]
               /\ UNCHANGED <<users, nextId, clock, born>>
          ELSE LET id == SerialText(nextId)
                   tbl == InsertUser(users, id, a)
               IN /\ users' = tbl
                  /\ born' = born \cup {<<row.id, row.username>> : row \in tbl \ users}
                  /\ nextId' = nextId + 1
                  /\ clock' = clock + 1
                  /\ req' = [req EXCEPT ![r] =
                               [Idle EXCEPT !.op = "addUser", !.args = a,
                                            !.pc = Await(o), !.primary = o,
                                            !.rows = SelectUser(tbl, id),
                                            !.at = clock + 1]]
    /\ UNCHANGED <<cache, trips, nextOid, topic, driverOps>>

\* Mutation.addUser from its second await: redisClient.set, return the row.
AddUserCacheSet(r) ==
    /\ req[r].op = "addUser" /\ req[r].pc = "next"
    /\ \E o \in Outcomes :
        /\ cache' = IF o = "ok"
                      THEN [cache EXCEPT ![UserKey(RowId(req[r].rows))] =
                              [has |-> TRUE,
                               value |-> JSONstringify(FirstRow(req[r].rows))]]
                      ELSE cache
        /\ req' = [req EXCEPT ![r].pc = "done", ![r].side = o,
                              ![r].status = IF o = "ok" THEN "ok" ELSE "error",
                              ![r].data = IF o = "ok" THEN FirstRow(req[r].rows)
                                          ELSE <<>>]
    /\ UNCHANGED <<users, nextId, trips, nextOid, topic, driverOps, clock, born>>

\* Mutation.updateUser up to its second await: UPDATE ... RETURNING *.
UpdateUserQuery(r) ==
    /\ CanStart(r)
    /\ \E a \in UpdateUserArgs, o \in Outcomes :
        IF o = "raised"
          THEN /\ req' = [req EXCEPT ![r] = Raised("updateUser")]
               /\ UNCHANGED <<users, clock>>
          ELSE LET tbl == UpdateUsers(users, a)
               IN /\ users' = tbl
                  /\ clock' = clock + 1
                  /\ req' = [req EXCEPT ![r] =
                               [Idle EXCEPT !.op = "updateUser", !.args = a,
                                            !.pc = Await(o), !.primary = o,
                                            !.pre = SelectUser(users, a.id),
                                            !.rows = SelectUser(tbl, a.id),
                                            !.at = clock + 1]]
    /\ UNCHANGED <<nextId, cache, trips, nextOid, topic, driverOps, born>>

\* Mutation.updateUser from its second await: redisClient.set at `user:${id}`
\* with JSON.stringify(result.rows[0]), return result.rows[0].  The client
\* takes strings only: with no row the value is undefined and set throws.
UpdateUserCacheSet(r) ==
    /\ req[r].op = "updateUser" /\ req[r].pc = "next"
    /\ LET value == JSONstringify(FirstRow(req[r].rows))
       IN \E o \in IF value = <<>> THEN {"raised"} ELSE Outcomes :
            /\ cache' = IF o = "ok"
                          THEN [cache EXCEPT ![UserKey(req[r].args.id)] =
                                  [has |-> TRUE, value |-> value]]
                          ELSE cache
            /\ req' = [req EXCEPT ![r].pc = "done", ![r].side = o,
                                  ![r].status = IF o = "ok" THEN "ok" ELSE "error",
                                  ![r].data = IF o = "ok" THEN FirstRow(req[r].rows)
                                              ELSE <<>>]
    /\ UNCHANGED <<users, nextId, trips, nextOid, topic, driverOps, clock, born>>

\* The string `User with ID ${id} deleted successfully`.
DeleteUserText(id) == <<"User with ID ", id, " deleted successfully">>

\* Mutation.deleteUser up to its second await: DELETE.
DeleteUserQuery(r) ==
    /\ CanStart(r)
    /\ \E a \in IdArgs(UserIdArgs), o \in Outcomes :
        IF o = "raised"
          THEN /\ req' = [req EXCEPT ![r] = Raised("deleteUser")]
               /\ UNCHANGED <<users, clock>>
          ELSE /\ users' = DeleteUsers(users, a.id)
               /\ clock' = clock + 1
               /\ req' = [req EXCEPT ![r] =
                            [Idle EXCEPT !.op = "deleteUser", !.args = a,
                                         !.pc = Await(o), !.primary = o,
                                         !.pre = SelectUser(users, a.id),
                                         !.at = clock + 1]]
    /\ UNCHANGED <<nextId, cache, trips, nextOid, topic, driverOps, born>>

\* Mutation.deleteUser from its second await: redisClient.del, return the text.
DeleteUserCacheDel(r) ==
    /\ req[r].op = "deleteUser" /\ req[r].pc = "next"
    /\ \E o \in Outcomes :
        /\ cache' = IF o = "ok"
                      THEN [cache EXCEPT ![UserKey(req[r].args.id)] = NoEntry]
                      ELSE cache
        /\ req' = [req EXCEPT ![r].pc = "done", ![r].side = o,
                              ![r].status = IF o = "ok" THEN "ok" ELSE "error",
                              ![r].text = IF o = "ok"
                                          THEN DeleteUserText(req[r].args.id)
                                          ELSE <<>>]
    /\ UNCHANGED <<users, nextId, trips, nextOid, topic, driverOps, clock, born>>

----------------------------------------------------------------------------
\* Resolvers of the trips domain

\* Query.getTrip: findOne({ id }).
GetTrip(r) ==
    /\ CanStart(r)
    /\ \E a \in IdArgs(TripIdArgs), o \in Outcomes :
        req' = [req EXCEPT ![r] =
                  IF o = "raised" THEN [Raised("getTrip") EXCEPT !.pc = "done"]
                  ELSE [Idle EXCEPT !.op = "getTrip", !.args = a, !.pc = "done",
                                    !.primary = "ok", !.status = "ok",
                                    !.data = FindOne(trips, a.id),
                                    !.at = clock]]
    /\ UNCHANGED <<users, nextId, cache, trips, nextOid, topic, driverOps, clock, born>>

\* Mutation.addTrip up to its second await: insertOne.  result.ops holds the
\* inserted document, with its _id, when the driver fills it.
AddTripInsert(r) ==
    /\ CanStart(r)
    /\ \E a \in AddTripArgs, o \in Outcomes :
        IF o = "raised"
          THEN /\ req' = [req EXCEPT ![r] = Raised("addTrip")]
               /\ UNCHANGED <<trips, nextOid, clock>>
          ELSE LET oid == OidText(nextOid)
                   coll == InsertOne(trips, oid, a)
               IN /\ trips' = coll
                  /\ nextOid' = nextOid + 1
                  /\ clock' = clock + 1
                  /\ req' = [req EXCEPT ![r] =
                               [Idle EXCEPT !.op = "addTrip", !.args = a,
                                            !.pc = Await(o), !.primary = o,
                                            !.rows = RowsOf({d \in coll : d._id = oid}),
                                            !.at = clock + 1]]
    /\ UNCHANGED <<users, nextId, cache, topic, driverOps, born>>

\* Mutation.addTrip from its second await: kafkaProducer.send to "trips" with
\* JSON.stringify(result.ops[0]), return result.ops[0].  Where the driver
\* leaves result.ops undefined, result.ops[0] throws before send is called.
AddTripPublish(r) ==
    /\ req[r].op = "addTrip" /\ req[r].pc = "next"
    /\ IF ~driverOps
         THEN /\ req' = [req EXCEPT ![r].pc = "done", ![r].status = "error"]
              /\ UNCHANGED topic
         ELSE \E o \in Outcomes :
                /\ topic' = IF o = "ok"
                              THEN Append(topic, [topic |-> "trips",
                                      value |-> JSONstringifyTrip(FirstRow(req[r].rows))])
                              ELSE topic
                /\ req' = [req EXCEPT ![r].pc = "done", ![r].side = o,
                                      ![r].status = IF o = "ok" THEN "ok" ELSE "error",
                                      ![r].data = IF o = "ok" THEN FirstRow(req[r].rows)
                                                  ELSE <<>>]
    /\ UNCHANGED <<users, nextId, cache, trips, nextOid, driverOps, clock, born>>

\* Mutation.updateTrip up to its second await: updateOne.
UpdateTripUpdate(r) ==
    /\ CanStart(r)
    /\ \E a \in UpdateTripArgs, o \in Outcomes :
        IF o = "raised"
          THEN /\ req' = [req EXCEPT ![r] = Raised("updateTrip")]
               /\ UNCHANGED <<trips, clock>>
          ELSE /\ trips' = UpdateOne(trips, a)
               /\ clock' = clock + 1
               /\ req' = [req EXCEPT ![r] =
                            [Idle EXCEPT !.op = "updateTrip", !.args = a,
                                         !.pc = Await(o), !.primary = o,
                                         !.pre = FindOne(trips, a.id),
                                         !.rows = FindOne(UpdateOne(trips, a), a.id),
                                         !.at = clock + 1]]
    /\ UNCHANGED <<users, nextId, cache, nextOid, topic, driverOps, born>>

\* Mutation.updateTrip from its second await: return findOne({ id }).
UpdateTripFind(r) ==
    /\ req[r].op = "updateTrip" /\ req[r].pc = "next"
    /\ \E o \in Outcomes :
        req' = [req EXCEPT ![r].pc = "done",
                           ![r].status = IF o = "ok" THEN "ok" ELSE "error",
                           ![r].data = IF o = "ok" THEN FindOne(trips, req[r].args.id)
                                       ELSE <<>>]
    /\ UNCHANGED <<users, nextId, cache, trips, nextOid, topic, driverOps, clock, born>>

\* The string `Trip with ID ${id} deleted successfully`.
DeleteTripText(id) == <<"Trip with ID ", id, " deleted successfully">>

\* Mutation.deleteTrip: deleteOne({ id }), return the text.
DeleteTrip(r) ==
    /\ CanStart(r)
    /\ \E a \in IdArgs(TripIdArgs), o \in Outcomes :
        IF o = "raised"
          THEN /\ req' = [req EXCEPT ![r] = [Raised("deleteTrip") EXCEPT !.pc = "done"]]
               /\ UNCHANGED <<trips, clock>>
          ELSE /\ trips' = DeleteOne(trips, a.id)
               /\ clock' = clock + 1
               /\ req' = [req EXCEPT ![r] =
                            [Idle EXCEPT !.op = "deleteTrip", !.args = a,
                                         !.pc = "done", !.primary = o,
                                         !.status = "ok",
                                         !.pre = FindOne(trips, a.id),
                                         !.text = DeleteTripText(a.id),
                                         !.at = clock + 1]]
    /\ UNCHANGED <<users, nextId, cache, nextOid, topic, driverOps, born>>

Next ==
    \E r \in Reqs :
        \/ GetUser(r)
        \/ AddUserInsert(r)
        \/ AddUserCacheSet(r)
        \/ UpdateUserQuery(r)
        \/ UpdateUserCacheSet(r)
        \/ DeleteUserQuery(r)
        \/ DeleteUserCacheDel(r)
        \/ GetTrip(r)
        \/ AddTripInsert(r)
        \/ AddTripPublish(r)
        \/ UpdateTripUpdate(r)
        \/ UpdateTripFind(r)
        \/ DeleteTrip(r)

Spec == Init /\ [][Next]_vars

----------------------------------------------------------------------------
\* Properties

\* A request that returned a value (no error).
Returned(r, op) == req[r].op = op /\ req[r].status = "ok"

\* Request g read the store right after request w wrote it: w's statement was
\* the last write when g's statement ran.
ReadNextAfter(g, w) == req[g].at = req[w].at

UserFields == {"name", "username", "email", "phone", "website"}

\* C1: every addUser that returns gives a record with a non-empty
\* store-assigned id and the five supplied fields, and a getUser with that id
\* that reads next, with no write in between, returns an equal record.
C1_AddUserThenGetUser ==
    \A a \in Reqs :
        Returned(a, "addUser") =>
            /\ Len(req[a].data) = 1
            /\ req[a].data[1].id \notin {"", Undefined, Null}
            /\ \A f \in UserFields : req[a].data[1][f] = req[a].args[f]
            /\ \A g \in Reqs :
                (/\ Returned(g, "getUser")
                 /\ req[g].args.id = req[a].data[1].id
                 /\ ReadNextAfter(g, a)) => req[g].data = req[a].data

C1_Witness ==
    \E a, g \in Reqs :
        /\ Returned(a, "addUser")
        /\ Returned(g, "getUser")
        /\ req[g].args.id = req[a].data[1].id
        /\ ReadNextAfter(g, a)
        /\ req[g].data # <<>>

UpdatableFields == {"name", "email", "phone", "website"}

\* C2: for an updateUser on an existing user, every field whose argument was
\* not supplied has the same value in the stored row after the update as
\* before it.
C2_OmittedFieldsKept ==
    \A u \in Reqs :
        (/\ req[u].op = "updateUser"
         /\ req[u].primary = "ok"
         /\ req[u].pre # <<>>) =>
            \A f \in UpdatableFields :
                req[u].args[f] = Undefined => req[u].rows[1][f] = req[u].pre[1][f]

\* The id a trip document carries: its id field, or the store's _id.
TripIdOf(d) == IF d.id # Undefined THEN d.id ELSE d._id

TripFields == {"destination", "startDate", "endDate"}

\* C3: every addTrip that returns gives a document with a non-empty id and
\* the three supplied fields, and a getTrip with that id that reads next
\* returns an equal document, not an absent one.
C3_AddTripThenGetTrip ==
    \A a \in Reqs :
        Returned(a, "addTrip") =>
            /\ Len(req[a].data) = 1
            /\ TripIdOf(req[a].data[1]) \notin {"", Undefined, Null}
            /\ \A f \in TripFields : req[a].data[1][f] = req[a].args[f]
            /\ \A g \in Reqs :
                (/\ Returned(g, "getTrip")
                 /\ req[g].args.id = TripIdOf(req[a].data[1])
                 /\ ReadNextAfter(g, a)) => req[g].data = req[a].data

\* C4: when the primary write succeeded and produced its result, a failure
\* of the cache write, the cache delete or the publish does not fail the
\* mutation: it returns its normal result.
C4_SideEffectFailureTolerated ==
    \A r \in Reqs :
        (/\ req[r].op \in {"addUser", "updateUser", "deleteUser", "addTrip"}
         /\ req[r].pc = "done"
         /\ req[r].primary = "ok"
         /\ (req[r].rows # <<>> \/ req[r].op = "deleteUser")
         /\ req[r].side = "raised") => req[r].status = "ok"

\* C5: every deleteUser(id) that returns gives a text containing the literal
\* id, and a getUser(id) that reads next returns absent, not an error, whether
\* or not a row with that id existed.
C5_DeleteUserThenGetUser ==
    \A d \in Reqs :
        Returned(d, "deleteUser") =>
            /\ \E i \in 1..Len(req[d].text) : req[d].text[i] = req[d].args.id
            /\ \A g \in Reqs :
                (/\ req[g].op = "getUser"
                 /\ req[g].primary = "ok"
                 /\ req[g].args.id = req[d].args.id
                 /\ ReadNextAfter(g, d)) =>
                    req[g].status = "ok" /\ req[g].data = <<>>

C5_Witness ==
    \E d, g \in Reqs :
        /\ Returned(d, "deleteUser")
        /\ req[d].pre # <<>>
        /\ Returned(g, "getUser")
        /\ req[g].args.id = req[d].args.id
        /\ ReadNextAfter(g, d)

\* C6: for an updateTrip on an existing trip that supplies only destination,
\* the stored startDate and endDate are the same after the update as before
\* it, and the returned document carries the new destination with those dates.
C6_OnlyDestinationChanged ==
    \A u \in Reqs :
        (/\ Returned(u, "updateTrip")
         /\ req[u].pre # <<>>
         /\ req[u].args.destination # Undefined
         /\ req[u].args.startDate = Undefined
         /\ req[u].args.endDate = Undefined
         /\ clock = req[u].at) =>
            /\ req[u].rows[1].startDate = req[u].pre[1].startDate
            /\ req[u].rows[1].endDate = req[u].pre[1].endDate
            /\ req[u].data =
                 <<[req[u].pre[1] EXCEPT !.destination = req[u].args.destination]>>

\* C7: a deleteTrip(id) that the store answers while no document has that id
\* returns "Trip with ID <id> deleted successfully", not an error, and leaves
\* the stored documents unchanged.
C7_DeleteMissingTrip ==
    [][\A r \in Reqs :
          (/\ req[r].pc = "idle"
           /\ req'[r].op = "deleteTrip"
           /\ req'[r].primary = "ok"
           /\ FindOne(trips, req'[r].args.id) = <<>>) =>
              /\ trips' = trips
              /\ req'[r].status = "ok"
              /\ req'[r].text =
                   <<"Trip with ID ", req'[r].args.id, " deleted successfully">>]_vars

C7_Witness ==
    \E r \in Reqs :
        /\ Returned(r, "deleteTrip")
        /\ req[r].pre = <<>>
        /\ trips # {}

\* C8: whatever updateUser calls ran, every stored row has the id and the
\* username it was inserted with.
C8_UsernameImmutable ==
    /\ \A row \in users : <<row.id, row.username>> \in born
    /\ \A x, y \in born : x[1] = y[1] => x = y

C8_Witness ==
    \E u \in Reqs :
        /\ Returned(u, "updateUser")
        /\ req[u].pre # <<>>
        /\ \E row \in users : row.id = PgId(req[u].args.id) /\ row.name # req[u].pre[1].name

\* C9: a request issues its cache set, cache delete or publish only after its
\* primary store write has returned successfully; a request whose primary
\* write raised issues none, and cache and topic change in no other step.
C9_SideEffectAfterPrimary ==
    [][/\ \A r \in Reqs :
            req'[r].side # req[r].side =>
                req[r].primary = "ok" /\ req[r].pc = "next"
       /\ (cache' # cache \/ topic' # topic) =>
            \E r \in Reqs : req[r].primary = "ok" /\ req'[r].side = "ok"
                            /\ req[r].side = "none"]_vars

C9_Witness ==
    /\ \E r \in Reqs : req[r].op = "addTrip" /\ req[r].side = "ok" /\ topic # <<>>
    /\ \E r \in Reqs : req[r].op = "addUser" /\ req[r].primary = "raised"
                       /\ req[r].pc = "done" /\ req[r].side = "none"

\* C10: when every request has returned without an error, all of them naming
\* their user by the id's own text, the cache holds at user:<id> the JSON of
\* the current row if the row exists and no entry if it does not.
C10_CacheMirrorsStore ==
    (\A r \in Reqs :
        /\ req[r].pc = "done"
        /\ req[r].status = "ok"
        /\ req[r].args.id = PgId(req[r].args.id)) =>
        \A n \in 1..MaxReq + 1 :
            LET id == SerialText(n)
                row == SelectUser(users, id)
            IN cache[UserKey(id)] =
                 IF row = <<>> THEN NoEntry
                 ELSE [has |-> TRUE, value |-> JSONstringify(row)]

====
